---- MODULE Spec2Model ----
(***************************************************************************)
(* Verification model of the WebSocket gateway of mtpx-framework-examples. *)
(*                                                                         *)
(* Part I   - the Linkd side (Rust): ConnectionManager, RoomManager and    *)
(*            MessageRouter of WEBSOCKET-LINKD-IMPLEMENTATION.md.          *)
(* Part II  - the receive loop of one connection (message_loop) and the    *)
(*            SDK side (TypeScript): WebSocketManager.on() and             *)
(*            handleInboundMessage() of WEBSOCKET-CODE-ANALYSIS.md.        *)
(***************************************************************************)
EXTENDS FiniteSets, Integers, Sequences, TLC

\* ------------------------------------------------------------------ bounds
MaxConns == 2
MaxRooms == 1
MaxEvents == 1
MaxExcept == 2
MaxConnectionsPerIdentity == 1
MaxFrames == 3
MaxMessageSizeBytes == 2
MaxRegistrations == 2
MaxMessages == 1
MaxElapsed == 2
ShortTimeoutMs == 1
MaxPayloadLen == 4
MaxRequests == 2
MaxCreated == 1
MaxAppRequests == 3
MaxPublished == 2
MaxNotes == 2

ConnIds == 1..MaxConns
RoomIds == 1..MaxRooms
EventIds == 1..MaxEvents

\* Option<String> user_id of a Connection: None or an identity.
NoUser == "none"
Users == {"alice"}

\* -------------------------------------------------------------- variables
VARIABLES
    connections,    \* ConnectionManager.connections: conn_id -> Connection
    nextConn,       \* the next fresh conn_id (uuid::Uuid::new_v4)
    rooms,          \* RoomManager.rooms: room -> HashSet<conn_id>
    leaving,        \* leave() calls between drop(members) and rooms.remove(room)
    tx,             \* Connection.tx: the messages sent to each connection
    nextEvent,      \* the next outbound message
    last,           \* the step taken last, with its arguments
    loopPc,         \* message_loop of one connection: "recv" or "exited"
    frameLog,       \* the frames socket.recv() has returned, and what was done with each
    routed,         \* the frames route_inbound has sent to the service
    handlers,       \* WebSocketManager.handlers, the entries of the Map in insertion order
    onLog,          \* the on() calls made, in order
    started,        \* the service has started and takes messages
    msgs,           \* the inbound messages handed to handleInboundMessage
    responses,      \* the WebSocketResponse messages sent back
    codec,          \* one frame on its way through the codec: frame, inbound, envelope
    kc,             \* keycloak-multi-tenant-routing: tenant_notes per database, the last request
    app,            \* minimal-app: the items, the cache of list, the last request
    mq,             \* msg-channels: the channel messages, the events, the counters
    sched,          \* scheduled-jobs: the job schedulers of the queue, the last request
    sockets,        \* handle_socket of each connection: where the task is
    email,          \* notifications.email: the channel's messages and what became of each
    ctx,            \* WsContext of the chat service: the room calls made through it, the last rooms() answer
    mw,             \* WebSocketManager's middlewares, and the chain run for the last message
    chat,           \* chat service: the open sockets and the users' stored status
    prod,           \* products service: one product's stock and the adjustStock requests
    ord             \* orders service: one order's status and the requests on it

gwVars == <<connections, nextConn, rooms, leaving, tx, nextEvent, last>>

loopVars == <<loopPc, frameLog, routed>>

sdkVars == <<handlers, onLog, started, msgs, responses>>

\* The state of the programs other than the gateway's registry, loop and SDK.
appVars == <<codec, kc, app, mq, sched, sockets, email, ctx, mw, chat, prod, ord>>

\* The variables a step of one program leaves alone.
exceptCodec == <<gwVars, loopVars, sdkVars, kc, app, mq, sched, sockets, email, ctx, mw, chat, prod, ord>>

exceptKc == <<gwVars, loopVars, sdkVars, codec, app, mq, sched, sockets, email, ctx, mw, chat, prod, ord>>

exceptApp == <<gwVars, loopVars, sdkVars, codec, kc, mq, sched, sockets, email, ctx, mw, chat, prod, ord>>

exceptMq == <<gwVars, loopVars, sdkVars, codec, kc, app, sched, sockets, email, ctx, mw, chat, prod, ord>>

exceptSched == <<gwVars, loopVars, sdkVars, codec, kc, app, mq, sockets, email, ctx, mw, chat, prod, ord>>

exceptEmail == <<gwVars, loopVars, sdkVars, codec, kc, app, mq, sched, sockets, ctx, mw, chat, prod, ord>>

exceptCtx == <<gwVars, loopVars, sdkVars, codec, kc, app, mq, sched, sockets, email, mw, chat, prod, ord>>

exceptCtxApps == <<codec, kc, app, mq, sched, sockets, email, mw, chat, prod, ord>>

exceptMw == <<gwVars, loopVars, sdkVars, codec, kc, app, mq, sched, sockets, email, ctx, chat, prod, ord>>

exceptChat == <<gwVars, loopVars, sdkVars, codec, kc, app, mq, sched, sockets, email, ctx, mw, prod, ord>>

exceptProd == <<gwVars, loopVars, sdkVars, codec, kc, app, mq, sched, sockets, email, ctx, mw, chat, ord>>

exceptOrd == <<gwVars, loopVars, sdkVars, codec, kc, app, mq, sched, sockets, email, ctx, mw, chat, prod>>

vars == <<gwVars, loopVars, sdkVars, appVars>>

\* ------------------------------------------------------ Part I: the state
NoTarget == [kind |-> "none", id |-> 0]
NoStep ==
    [op |-> "init", conn |-> 0, room |-> 0, target |-> NoTarget, except |-> <<>>, event |-> 0,
     result |-> "Ok"]

Step(op, conn, room) == [NoStep EXCEPT !.op = op, !.conn = conn, !.room = room]

\* Connection::new(conn_id, socket, user): nothing of the gateway ever writes
\* Connection.rooms, so it is the empty set it is created with. rx_open tells
\* whether the receiver of Connection.tx is still there to take messages.
NewConnection(user) == [user_id |-> user, rooms |-> {}, rx_open |-> TRUE]

\* DashMap::remove(key)
MapRemove(m, k) == [x \in DOMAIN m \ {k} |-> m[x]]

\* A join that only creates the room: the insert into an existing entry is lost.
RoomsJoin_OnlyCreates(rs, conn_id, room) == rs @@ (room :> {conn_id})

\* A join that takes the id out of the set when it is already in it.
RoomsJoin_Toggles(rs, conn_id, room) ==
    IF room \in DOMAIN rs
    THEN [rs EXCEPT ![room] = IF conn_id \in @ THEN @ \ {conn_id} ELSE @ \cup {conn_id}]
    ELSE rs @@ (room :> {conn_id})

\* RoomManager::join: rooms.entry(room).or_insert_with(HashSet::new).insert(conn_id)
RoomsJoin(rs, conn_id, room) ==
    IF room \in DOMAIN rs
    THEN [rs EXCEPT ![room] = @ \cup {conn_id}]
    ELSE rs @@ (room :> {conn_id})

\* RoomManager::leave, first half: get_mut(room), members.remove(conn_id)
MembersRemove(rs, conn_id, room) ==
    IF room \in DOMAIN rs THEN [rs EXCEPT ![room] = @ \ {conn_id}] ELSE rs

\* RoomManager::leave, run without interruption
RoomsLeave(rs, conn_id, room) ==
    LET after == MembersRemove(rs, conn_id, room) IN
    IF room \in DOMAIN after /\ after[room] = {} THEN MapRemove(after, room) ELSE after

\* ConnectionManager::remove: for room in rooms { room_manager.leave(conn_id, &room) }
RECURSIVE LeaveAll(_, _, _)
LeaveAll(rs, conn_id, todo) ==
    IF todo = {} THEN rs
    ELSE LET room == CHOOSE r \in todo : TRUE
         IN LeaveAll(RoomsLeave(rs, conn_id, room), conn_id, todo \ {room})

\* RoomManager::get_members
get_members(room) == IF room \in DOMAIN rooms THEN rooms[room] ELSE {}

\* RoomManager::get_rooms_for_connection
get_rooms_for_connection(conn_id) == {r \in DOMAIN rooms : conn_id \in rooms[r]}

\* The connections an identity holds.
ConnectionsOf(user) == {c \in DOMAIN connections : connections[c].user_id = user}

GwInit ==
    /\ connections = <<>>
    /\ nextConn = 1
    /\ rooms = <<>>
    /\ leaving = {}
    /\ tx = [c \in ConnIds |-> <<>>]
    /\ nextEvent = 1
    /\ last = NoStep

\* ---------------------------------------------------- Part I: the actions

\* WebSocketHandler::handle_socket, step 3: ConnectionManager::add
Add(user) ==
    /\ nextConn <= MaxConns
    /\ connections' = connections @@ (nextConn :> NewConnection(user))
    /\ nextConn' = nextConn + 1
    /\ last' = Step("add", nextConn, 0)
    /\ UNCHANGED <<rooms, leaving, tx, nextEvent, loopVars, sdkVars, appVars>>

\* WebSocketHandler::handle_socket, step 6: ConnectionManager::remove
Remove(conn_id) ==
    /\ conn_id \in DOMAIN connections
    /\ connections' = MapRemove(connections, conn_id)
    /\ rooms' = LeaveAll(rooms, conn_id, connections[conn_id].rooms)
    /\ last' = Step("remove", conn_id, 0)
    /\ UNCHANGED <<nextConn, leaving, tx, nextEvent, loopVars, sdkVars, appVars>>

\* MessageRouter::handle_room_operation, OperationType::Join
Join(conn_id, room) ==
    /\ conn_id < nextConn
    /\ rooms' = RoomsJoin(rooms, conn_id, room)
    /\ last' = Step("join", conn_id, room)
    /\ UNCHANGED <<connections, nextConn, leaving, tx, nextEvent, loopVars, sdkVars, appVars>>

\* MessageRouter::handle_room_operation, OperationType::Leave, up to the point
\* where the guard on the room's entry is dropped.
LeaveLock(conn_id, room) ==
    /\ conn_id < nextConn
    /\ <<conn_id, room>> \notin leaving
    /\ rooms' = MembersRemove(rooms, conn_id, room)
    /\ IF room \in DOMAIN rooms /\ rooms'[room] = {}
       THEN /\ leaving' = leaving \cup {<<conn_id, room>>}
            /\ last' = Step("leave_unlock", conn_id, room)
       ELSE /\ leaving' = leaving
            /\ last' = Step("leave", conn_id, room)
    /\ UNCHANGED <<connections, nextConn, tx, nextEvent, loopVars, sdkVars, appVars>>

\* RoomManager::leave, second half: self.rooms.remove(room)
LeaveDelete(conn_id, room) ==
    /\ <<conn_id, room>> \in leaving
    /\ rooms' = MapRemove(rooms, room)
    /\ leaving' = leaving \ {<<conn_id, room>>}
    /\ last' = Step("leave", conn_id, room)
    /\ UNCHANGED <<connections, nextConn, tx, nextEvent, loopVars, sdkVars, appVars>>

\* ConnectionManager::send_to: the message goes to the connection's channel if the
\* connection is registered and the channel has its receiver, and nowhere otherwise.
send_to(chan, conn_id, message) ==
    IF conn_id \in DOMAIN connections /\ connections[conn_id].rx_open
    THEN [chan EXCEPT ![conn_id] = Append(@, message)]
    ELSE chan

\* The Result of send_to: `conn.tx.send(message)?` is an Err when the receiver of
\* the channel is gone; a connection that is not registered gives Ok(()).
SendToResult(conn_id) ==
    IF conn_id \in DOMAIN connections /\ ~connections[conn_id].rx_open THEN "Err" ELSE "Ok"

RECURSIVE SendEach(_, _, _)
SendEach(chan, todo, message) ==
    IF todo = {} THEN chan
    ELSE LET conn_id == CHOOSE c \in todo : TRUE
         IN SendEach(send_to(chan, conn_id, message), todo \ {conn_id}, message)

\* ConnectionManager::broadcast_to_room(room, message, except: Option<&str>)
NoExcept == 0
broadcast_to_room(chan, room, message, except) ==
    SendEach(chan, {c \in get_members(room) : c # except}, message)

\* MessageRouter::route_outbound: except_connections is a repeated field, of which
\* the room branch passes on the first entry and the broadcast_all branch none.
FirstExcept(except_connections) ==
    IF except_connections = <<>> THEN NoExcept ELSE except_connections[1]

Targets ==
    [kind : {"connection"}, id : ConnIds]
        \cup [kind : {"room"}, id : RoomIds]
        \cup [kind : {"all"}, id : {0}]

ExceptLists == UNION {[1..n -> ConnIds] : n \in 0..MaxExcept}

RouteOutbound(target, except_connections) ==
    /\ nextEvent <= MaxEvents
    /\ tx' = CASE target.kind = "connection" -> send_to(tx, target.id, nextEvent)
               [] target.kind = "room" ->
                    broadcast_to_room(tx, target.id, nextEvent, FirstExcept(except_connections))
               [] target.kind = "all" -> SendEach(tx, DOMAIN connections, nextEvent)
    /\ nextEvent' = nextEvent + 1
    /\ last' = [op |-> "outbound", conn |-> 0, room |-> 0, target |-> target,
                except |-> except_connections, event |-> nextEvent,
                result |-> IF target.kind = "connection"
                           THEN SendToResult(target.id) ELSE "Ok"]
    /\ UNCHANGED <<connections, nextConn, rooms, leaving, loopVars, sdkVars, appVars>>

\* message_loop's send task, `while let Some(msg) = rx.recv().await`, ends when a
\* write to the socket fails, or is aborted when the loop ends: the receiver goes
\* with it while the connection is still registered (remove comes after).
SendTaskEnds(conn_id) ==
    /\ conn_id \in DOMAIN connections
    /\ connections[conn_id].rx_open
    /\ connections' = [connections EXCEPT ![conn_id].rx_open = FALSE]
    /\ last' = Step("send_task_ends", conn_id, 0)
    /\ UNCHANGED <<nextConn, rooms, leaving, tx, nextEvent, loopVars, sdkVars, appVars>>

\* ---------------------------------------- Part II: the receive loop (Rust)

FrameKinds == {"text", "binary", "ping", "close", "error"}

\* A frame as socket.recv() returns it: Ok(Message::Text / Binary / Ping / Close)
\* or Err. A text frame has a size and is, or is not, the JSON of a WebSocketMessage.
Frames ==
    [kind : {"text"}, size : 1..(MaxMessageSizeBytes + 1), wellFormed : BOOLEAN]
        \cup [kind : FrameKinds \ {"text"}, size : {1}, wellFormed : {TRUE}]

\* What route_inbound finds: the service's socket takes the message, fails on the
\* write, or is not registered.
ServiceSockets == {"ok", "fail", "absent"}

LoopInit ==
    /\ loopPc = "recv"
    /\ frameLog = <<>>
    /\ routed = <<>>

\* What the Message::Text branch does with a frame: serde_json::from_str, then
\* route_inbound; `parsed` tells whether from_str was run on the text, `reply` what
\* was sent back to the client, `exits` whether the `?` left the loop.
TextBranch(frame, socket) ==
    [parsed |-> TRUE,
     reply |-> "none",
     route |-> frame.wellFormed /\ socket = "ok",
     exits |-> ~frame.wellFormed \/ socket = "fail"]

\* One turn of `while let Some(msg_result) = socket.recv().await`
Recv(frame, socket) ==
    /\ loopPc = "recv"
    /\ Len(frameLog) < MaxFrames
    /\ LET done ==
            CASE frame.kind = "text" -> TextBranch(frame, socket)
              [] frame.kind = "binary" ->
                    [parsed |-> FALSE, reply |-> "none", route |-> FALSE, exits |-> FALSE]
              [] frame.kind = "ping" ->
                    [parsed |-> FALSE, reply |-> "pong", route |-> FALSE, exits |-> FALSE]
              [] frame.kind \in {"close", "error"} ->
                    [parsed |-> FALSE, reply |-> "none", route |-> FALSE, exits |-> TRUE]
       IN /\ frameLog' = Append(frameLog,
                [kind |-> frame.kind, size |-> frame.size, wellFormed |-> frame.wellFormed,
                 parsed |-> done.parsed, reply |-> done.reply])
          /\ routed' = IF done.route THEN Append(routed, Len(frameLog) + 1) ELSE routed
          /\ loopPc' = IF done.exits THEN "exited" ELSE "recv"
    /\ UNCHANGED <<gwVars, sdkVars, appVars>>

NextLoop == \E frame \in Frames, socket \in ServiceSockets : Recv(frame, socket)

\* ------------------------------------- Part II: the SDK (WebSocketManager)

MessageTypes == {"chat.send", "chat.typing"}
HandlerFns == {"h1", "h2"}
Roles == {"admin"}
NoSchema == "undefined"
DefaultTimeoutMs == 30000

\* The defaults of on(): auth false, roles [], description "", timeoutMs 30000,
\* validate undefined.
DefaultOptions ==
    [auth |-> FALSE, roles |-> {}, description |-> "", timeoutMs |-> DefaultTimeoutMs,
     validate |-> NoSchema]

\* The options a caller of on() may give: any subset of the keys (`given`), each
\* given key with a value other than its default.
OptionKeys == {"auth", "roles", "timeoutMs", "validate"}

OptionRecords ==
    {[given |-> keys, auth |-> TRUE, roles |-> Roles, timeoutMs |-> ShortTimeoutMs,
      validate |-> "schema"] : keys \in SUBSET OptionKeys}

\* resolvedOptions = { auth: false, roles: [], description: "", timeoutMs: 30000,
\*                     validate: undefined, ...options }
ResolveOptions(options) ==
    [auth |-> IF "auth" \in options.given THEN options.auth ELSE DefaultOptions.auth,
     roles |-> IF "roles" \in options.given THEN options.roles ELSE DefaultOptions.roles,
     description |-> DefaultOptions.description,
     timeoutMs |-> IF "timeoutMs" \in options.given
                   THEN options.timeoutMs ELSE DefaultOptions.timeoutMs,
     validate |-> IF "validate" \in options.given
                  THEN options.validate ELSE DefaultOptions.validate]

\* A Map.set that keeps the entry already stored under the key and adds another.
MapSet_Accumulates(entries, entry) == Append(entries, entry)

\* this.handlers.set(name, {name, handler, options}): Map.set replaces the value
\* of an existing key in place and appends a new key.
MapSet(entries, entry) ==
    IF \E i \in DOMAIN entries : entries[i].name = entry.name
    THEN [i \in DOMAIN entries |->
            IF entries[i].name = entry.name THEN entry ELSE entries[i]]
    ELSE Append(entries, entry)

\* this.handlers.get(name)
HasHandler(name) == \E i \in DOMAIN handlers : handlers[i].name = name
HandlerOf(name) == handlers[CHOOSE i \in DOMAIN handlers : handlers[i].name = name]

SdkInit ==
    /\ handlers = <<>>
    /\ onLog = <<>>
    /\ started = FALSE
    /\ msgs = <<>>
    /\ responses = {}

\* WebSocketManager.on(name, options, handler)
On(name, options, handler) ==
    /\ ~started
    /\ Len(onLog) < MaxRegistrations
    /\ handlers' = MapSet(handlers,
            [name |-> name, handler |-> handler, options |-> ResolveOptions(options)])
    /\ onLog' = Append(onLog, [name |-> name, options |-> options, handler |-> handler])
    /\ UNCHANGED <<started, msgs, responses, gwVars, loopVars, appVars>>

\* service.start(): from here on messages are taken.
Start ==
    /\ ~started
    /\ started' = TRUE
    /\ UNCHANGED <<handlers, onLog, msgs, responses, gwVars, loopVars, appVars>>

\* message.user of a WebSocketInbound: absent, or the roles of the user.
AbsentUser == [present |-> FALSE, roles |-> {}]
MessageUsers == {AbsentUser} \cup [present : {TRUE}, roles : SUBSET Roles]

\* An inbound message: payloadOk tells whether the payload is JSON, schemaOk whether
\* the parsed payload passes the schema a handler may declare for its type.
InboundMessages ==
    [messageType : MessageTypes, user : MessageUsers, hasId : BOOLEAN, payloadOk : BOOLEAN,
     schemaOk : BOOLEAN]

\* handleInboundMessage up to the call of the handler: the auth check, the roles
\* check, JSON.parse of the payload (no try/catch), then the handler is called.
\* options.validate and options.timeoutMs are not read.
Admission(options, message) ==
    IF options.auth /\ ~message.user.present THEN "dropped_auth"
    ELSE IF options.roles # {} /\ message.user.present /\ options.roles \cap message.user.roles = {}
         THEN "dropped_roles"
    ELSE IF ~message.payloadOk THEN "parse_threw"
    ELSE "running"

\* A catch-all that only logs the unknown type.
OnMessage_LogsOnly(m, message) == {}

\* service.ws.onMessage(ctx => ctx.send("error", {code: "UNKNOWN_MESSAGE_TYPE", ...})):
\* the catch-all of the chat service, run for a type without a handler. It sends
\* an "error" event to the socket and makes no ctx.disconnect call.
OnMessage(m, message) ==
    {[msg |-> m, correlationId |-> 0, kind |-> "error", type |-> "UNKNOWN_MESSAGE_TYPE"]}

HandleInboundMessage(message) ==
    /\ started
    /\ Len(msgs) < MaxMessages
    /\ IF HasHandler(message.messageType)
       THEN /\ msgs' = Append(msgs,
                    [messageType |-> message.messageType, user |-> message.user,
                     schemaOk |-> message.payloadOk /\ message.schemaOk,
                     correlationId |-> IF message.hasId THEN Len(msgs) + 1 ELSE 0,
                     status |-> Admission(HandlerOf(message.messageType).options, message),
                     elapsed |-> 0])
            /\ responses' = responses
       ELSE /\ msgs' = Append(msgs,
                    [messageType |-> message.messageType, user |-> message.user,
                     schemaOk |-> message.payloadOk /\ message.schemaOk,
                     correlationId |-> IF message.hasId THEN Len(msgs) + 1 ELSE 0,
                     status |-> "catch_all",
                     elapsed |-> 0])
            /\ responses' = responses \cup OnMessage(Len(msgs) + 1, message)
    /\ UNCHANGED <<handlers, onLog, started, gwVars, loopVars, appVars>>

\* Time passes while handlers run: nothing of the SDK watches it.
Tick ==
    /\ \E m \in DOMAIN msgs : msgs[m].status = "running" /\ msgs[m].elapsed < MaxElapsed
    /\ msgs' = [m \in DOMAIN msgs |->
                    IF msgs[m].status = "running" /\ msgs[m].elapsed < MaxElapsed
                    THEN [msgs[m] EXCEPT !.elapsed = @ + 1] ELSE msgs[m]]
    /\ UNCHANGED <<handlers, onLog, started, responses, gwVars, loopVars, appVars>>

\* The handler returns: `return data` is the acknowledgement sent to the client.
HandlerReturns(m) ==
    /\ m \in DOMAIN msgs
    /\ msgs[m].status = "running"
    /\ msgs' = [msgs EXCEPT ![m].status = "returned"]
    /\ responses' = responses \cup
            {[msg |-> m, correlationId |-> msgs[m].correlationId, kind |-> "data", type |-> "ack"]}
    /\ UNCHANGED <<handlers, onLog, started, gwVars, loopVars, appVars>>

\* The handler throws: the catch logs the error and sends nothing.
HandlerThrows(m) ==
    /\ m \in DOMAIN msgs
    /\ msgs[m].status = "running"
    /\ msgs' = [msgs EXCEPT ![m].status = "threw"]
    /\ UNCHANGED <<handlers, onLog, started, responses, gwVars, loopVars, appVars>>

NextRegistry ==
    \E name \in MessageTypes, options \in OptionRecords, handler \in HandlerFns :
        On(name, options, handler)

NextSdk ==
    \/ \E name \in MessageTypes, options \in OptionRecords : On(name, options, "h1")
    \/ Start
    \/ \E message \in InboundMessages : HandleInboundMessage(message)
    \/ Tick
    \/ \E m \in 1..MaxMessages : HandlerReturns(m)
    \/ \E m \in 1..MaxMessages : HandlerThrows(m)

\* on(name, handler): the call without options.
NoOptions == CHOOSE options \in OptionRecords : options.given = {}

NextDispatch ==
    \/ \E name \in MessageTypes : On(name, NoOptions, "h1")
    \/ Start
    \/ \E message \in InboundMessages : HandleInboundMessage(message)

\* ------------------------------------------- Part III: the message codec
\* A frame of a client is JSON.stringify({type, data, id}); Linkd reads it into a
\* WebSocketMessage {message_type, payload, id}, route_inbound turns that into a
\* WebSocketInbound, and the SDK reads the payload with JSON.parse.

\* Code points of the texts: '"', 'a', 'l', 'n', 'u', and 'e' with an acute accent
\* (two bytes in UTF-8).
Quote == 34
CodePoints == {Quote, 97, 108, 110, 117, 233}
Texts == UNION {[1..n -> CodePoints] : n \in 0..MaxPayloadLen}

\* The id of a frame: Option<String>, None when the client's object has no id.
NoId == "absent"
FrameIds == {NoId, "msg-1"}

ClientFrames == [message_type : MessageTypes, payload : Texts, id : FrameIds]

\* The UTF-8 bytes of one code point below U+0800.
Utf8Bytes(cp) == IF cp < 128 THEN <<cp>> ELSE <<192 + (cp \div 64), 128 + (cp % 64)>>

\* String::into_bytes
RECURSIVE into_bytes(_)
into_bytes(text) ==
    IF text = <<>> THEN <<>> ELSE Utf8Bytes(Head(text)) \o into_bytes(Tail(text))

\* A decoder that takes every byte for a code point (latin1).
ToStringUtf8_Latin1(bytes) == bytes

\* Buffer.toString("utf-8"): a byte sequence that is not UTF-8 gives U+FFFD.
RECURSIVE ToStringUtf8(_)
ToStringUtf8(bytes) ==
    IF bytes = <<>> THEN <<>>
    ELSE IF Head(bytes) < 128 THEN <<Head(bytes)>> \o ToStringUtf8(Tail(bytes))
    ELSE IF /\ Head(bytes) >= 192
            /\ Len(bytes) >= 2
            /\ bytes[2] \in 128..191
         THEN <<(Head(bytes) - 192) * 64 + (bytes[2] - 128)>> \o ToStringUtf8(Tail(Tail(bytes)))
    ELSE <<65533>> \o ToStringUtf8(Tail(bytes))

\* The JSON values of the model: null and the strings.
NullText == <<110, 117, 108, 108>>
JsonNull == [kind |-> "null", chars |-> <<>>]
JsonString(chars) == [kind |-> "string", chars |-> chars]
JsonThrows == [kind |-> "SyntaxError", chars |-> <<>>]

\* JSON.parse
JSONparse(text) ==
    IF text = NullText THEN JsonNull
    ELSE IF /\ Len(text) >= 2
            /\ text[1] = Quote
            /\ text[Len(text)] = Quote
            /\ \A i \in 2..(Len(text) - 1) : text[i] # Quote
         THEN JsonString(SubSeq(text, 2, Len(text) - 1))
    ELSE JsonThrows

\* JSON.stringify
JSONstringify(value) ==
    IF value.kind = "null" THEN NullText ELSE <<Quote>> \o value.chars \o <<Quote>>

\* MessageRouter::route_inbound, step 1: the WebSocketInbound of a WebSocketMessage
WsInbound(conn_id, service_name, message) ==
    [connection_id |-> conn_id,
     service_name |-> service_name,
     message_type |-> message.message_type,
     payload |-> into_bytes(message.payload),
     correlation_id |-> message.id]

\* handleInboundMessage: the message of the handler's context
ParsedMessage(inbound) ==
    [type |-> inbound.message_type,
     data |-> JSONparse(ToStringUtf8(inbound.payload)),
     id |-> inbound.correlation_id]

\* ChatClient.send: ws.send(JSON.stringify({type, data, id})); a key whose value is
\* undefined is left out of the text, and read back as None.
ClientSend(envelope) ==
    [message_type |-> envelope.type, payload |-> JSONstringify(envelope.data), id |-> envelope.id]

NoFrame == [message_type |-> "", payload |-> <<>>, id |-> NoId]
NoEnvelope == [type |-> "", data |-> JsonThrows, id |-> NoId]

CodecInit ==
    codec = [stage |-> "idle", frame |-> NoFrame, envelope |-> NoEnvelope, out |-> NoFrame]

\* A frame comes in and is decoded: message_loop, route_inbound, handleInboundMessage.
Decode(frame) ==
    /\ codec.stage = "idle"
    /\ LET envelope == ParsedMessage(WsInbound(1, "chat", frame))
       IN codec' = [stage |-> IF envelope.data = JsonThrows THEN "failed" ELSE "decoded",
                    frame |-> frame, envelope |-> envelope, out |-> NoFrame]
    /\ UNCHANGED exceptCodec

\* The decoded envelope is encoded again.
Encode ==
    /\ codec.stage = "decoded"
    /\ codec' = [codec EXCEPT !.stage = "encoded", !.out = ClientSend(codec.envelope)]
    /\ UNCHANGED exceptCodec

NextCodec ==
    \/ \E frame \in ClientFrames : Decode(frame)
    \/ Encode

\* ------------------------- Part IV: mtpx-keycloak-multi-tenant-routing
\* One HTTP request at a time: the SDK resolves the realm of the host, the token
\* carries the realm that issued it and its tenant_id, and the database of the
\* request is the one of the token's tenant_id.

KNOWN_REALMS == {"realm1", "realm2"}
DefaultRealm == "realm1"
KcHosts == {"realm1.localhost", "realm2.localhost", "localhost"}

\* ctx.tenant.realm: the realm of the host, the default realm for any other host.
RealmOfHost(host) ==
    IF host = "realm1.localhost" THEN "realm1"
    ELSE IF host = "realm2.localhost" THEN "realm2"
    ELSE DefaultRealm

\* The tenant_id claim of a token: realm1 -> local_pg_realm1, realm2 -> local_pg_realm2.
TenantIdOf(realm) == IF realm = "realm1" THEN "local_pg_realm1" ELSE "local_pg_realm2"
KcDatabases == {TenantIdOf(realm) : realm \in KNOWN_REALMS}

\* The Authorization header: absent, or a bearer token of a realm, with or
\* without the role admin.
NoToken == [present |-> FALSE, realm |-> "", admin |-> FALSE]
KcTokens == {NoToken} \cup [present : {TRUE}, realm : KNOWN_REALMS, admin : BOOLEAN]

\* The actions of the service with their options.
KcActions ==
    {[name |-> "health", auth |-> FALSE, admin |-> FALSE, db |-> "none"],
     [name |-> "context", auth |-> TRUE, admin |-> FALSE, db |-> "read"],
     [name |-> "notes.list", auth |-> TRUE, admin |-> FALSE, db |-> "read"],
     [name |-> "notes.create", auth |-> TRUE, admin |-> FALSE, db |-> "insert"],
     [name |-> "notes.clear", auth |-> TRUE, admin |-> TRUE, db |-> "delete"]}

\* A guard that lets any valid token through on any host.
CrossTenantToken_AnyRealm(host, token) == FALSE

\* The protection against tokens of another realm: the realm of the host and the
\* realm of the bearer token differ.
CrossTenantToken(host, token) == token.present /\ RealmOfHost(host) # token.realm

\* The answer to a request before the action runs: 401 without a token, 403 for a
\* token of another realm or without a required role, 200 when the action runs.
KcStatus(host, token, action) ==
    IF ~action.auth THEN 200
    ELSE IF ~token.present THEN 401
    ELSE IF CrossTenantToken(host, token) THEN 403
    ELSE IF action.admin /\ ~token.admin THEN 403
    ELSE 200

\* tenant_notes of each database after the action has run on the token's database.
KcNotesAfter(notes, token, action) ==
    IF action.db = "insert" /\ notes[TenantIdOf(token.realm)] < MaxNotes
        THEN [notes EXCEPT ![TenantIdOf(token.realm)] = @ + 1]
    ELSE IF action.db = "delete" THEN [notes EXCEPT ![TenantIdOf(token.realm)] = 0]
    ELSE notes

NoKcRequest ==
    [host |-> "", token |-> NoToken, action |-> "", auth |-> FALSE, status |-> 0,
     executed |-> FALSE, databases |-> {}]

KcInit ==
    kc = [notes |-> [db \in KcDatabases |-> 0], served |-> 0, last |-> NoKcRequest]

\* One request: the checks, then the action on the database of the token.
KcRequest(host, token, action) ==
    /\ kc.served < MaxRequests
    /\ LET status == KcStatus(host, token, action)
           runs == status = 200
       IN kc' = [notes |-> IF runs THEN KcNotesAfter(kc.notes, token, action) ELSE kc.notes,
                 served |-> kc.served + 1,
                 last |-> [host |-> host, token |-> token, action |-> action.name,
                           auth |-> action.auth, status |-> status, executed |-> runs,
                           databases |-> IF runs /\ action.db # "none"
                                         THEN {TenantIdOf(token.realm)} ELSE {}]]
    /\ UNCHANGED exceptKc

NextKc == \E host \in KcHosts, token \in KcTokens, action \in KcActions : KcRequest(host, token, action)

\* ------------------------------------------------ Part V: mtpx-minimal-app
\* The in-memory item store, the cache of the list action and one HTTP request at
\* a time.

\* The ids of the items: "1" and "2" are there at the start, a created item has a
\* fresh id (crypto.randomUUID).
InitialItems == {1, 2}
ItemIds == 1..(Cardinality(InitialItems) + MaxCreated)

\* The bearer token of a request: none, or generateToken(role).
AppTokens == {"none", "user", "admin"}
RolesOfToken(token) == IF token = "none" THEN {} ELSE {token}

\* The options of the actions.
AppActions ==
    [list |-> [auth |-> FALSE, roles |-> {}, validate |-> FALSE],
     get |-> [auth |-> FALSE, roles |-> {}, validate |-> FALSE],
     create |-> [auth |-> TRUE, roles |-> {}, validate |-> TRUE],
     delete |-> [auth |-> TRUE, roles |-> {"admin"}, validate |-> FALSE]]

\* An authorization that asks for a token and never looks at its roles.
Authorize_TokenOnly(options, token, bodyOk) ==
    IF options.auth /\ token = "none" THEN [status |-> 401, type |-> "UNAUTHORIZED"]
    ELSE IF options.validate /\ ~bodyOk THEN [status |-> 422, type |-> "VALIDATION"]
    ELSE [status |-> 200, type |-> ""]

\* What the framework answers before the handler runs: 401 UNAUTHORIZED for an
\* auth action without a token, 403 FORBIDDEN when none of the roles of the action
\* is a role of the token, 422 VALIDATION when the body fails the schema.
Authorize(options, token, bodyOk) ==
    IF options.auth /\ token = "none" THEN [status |-> 401, type |-> "UNAUTHORIZED"]
    ELSE IF options.roles # {} /\ options.roles \cap RolesOfToken(token) = {}
         THEN [status |-> 403, type |-> "FORBIDDEN"]
    ELSE IF options.validate /\ ~bodyOk THEN [status |-> 422, type |-> "VALIDATION"]
    ELSE [status |-> 200, type |-> ""]

NoCache == [valid |-> FALSE, items |-> {}]

\* An invalidation that leaves the cached answer in place.
invalidateCache_Keeps(cache) == cache

\* service.invalidateCache({ action: "list" }), called by the handler before it
\* returns its answer.
invalidateCache(cache) == NoCache

NoAppRequest ==
    [action |-> "", token |-> "none", id |-> 0, status |-> 0, type |-> "", before |-> {},
     body |-> {}, emitted |-> ""]

AppInit ==
    app = [items |-> InitialItems, nextId |-> Cardinality(InitialItems) + 1,
           cache |-> NoCache, mutatedOverCache |-> FALSE, served |-> 0,
           last |-> NoAppRequest]

AppAnswer(action, token, id, answer, body, emitted) ==
    [action |-> action, token |-> token, id |-> id, status |-> answer.status,
     type |-> answer.type, before |-> app.items, body |-> body, emitted |-> emitted]

\* GET /minimal-app/items: the cached answer while the cache holds one (ttl 60 s),
\* Array.from(items.values()) otherwise, which is then cached.
AppList(token) ==
    /\ app.served < MaxAppRequests
    /\ LET body == IF app.cache.valid THEN app.cache.items ELSE app.items
       IN app' = [app EXCEPT !.cache = [valid |-> TRUE, items |-> body],
                             !.served = @ + 1,
                             !.last = AppAnswer("list", token, 0,
                                        Authorize(AppActions.list, token, TRUE), body, "")]
    /\ UNCHANGED exceptApp

\* The cached answer of list expires.
AppCacheExpires ==
    /\ app.cache.valid
    /\ app' = [app EXCEPT !.cache = NoCache]
    /\ UNCHANGED exceptApp

\* GET /minimal-app/items/:id
AppGet(token, id) ==
    /\ app.served < MaxAppRequests
    /\ app' = [app EXCEPT !.served = @ + 1,
                          !.last = AppAnswer("get", token, id,
                                     IF id \in app.items
                                     THEN Authorize(AppActions.get, token, TRUE)
                                     ELSE [status |-> 404, type |-> "Not found"],
                                     app.items \cap {id}, "")]
    /\ UNCHANGED exceptApp

\* POST /minimal-app/items
AppCreate(token, bodyOk) ==
    /\ app.served < MaxAppRequests
    /\ app.nextId \in ItemIds
    /\ LET answer == Authorize(AppActions.create, token, bodyOk)
       IN IF answer.status = 200
          THEN app' = [app EXCEPT !.items = @ \cup {app.nextId},
                                  !.nextId = @ + 1,
                                  !.cache = invalidateCache(@),
                                  !.mutatedOverCache = @ \/ app.cache.valid,
                                  !.served = @ + 1,
                                  !.last = AppAnswer("create", token, app.nextId, answer,
                                             {app.nextId}, "item.created")]
          ELSE app' = [app EXCEPT !.served = @ + 1,
                                  !.last = AppAnswer("create", token, 0, answer, {}, "")]
    /\ UNCHANGED exceptApp

\* DELETE /minimal-app/items/:id
AppDelete(token, id) ==
    /\ app.served < MaxAppRequests
    /\ LET answer == Authorize(AppActions.delete, token, TRUE)
       IN IF answer.status # 200
          THEN app' = [app EXCEPT !.served = @ + 1,
                                  !.last = AppAnswer("delete", token, id, answer, {}, "")]
          ELSE IF id \notin app.items
          THEN app' = [app EXCEPT !.served = @ + 1,
                                  !.last = AppAnswer("delete", token, id,
                                             [status |-> 404, type |-> "Not found"], {}, "")]
          ELSE app' = [app EXCEPT !.items = @ \ {id},
                                  !.cache = invalidateCache(@),
                                  !.mutatedOverCache = @ \/ app.cache.valid,
                                  !.served = @ + 1,
                                  !.last = AppAnswer("delete", token, id, answer,
                                             {}, "item.deleted")]
    /\ UNCHANGED exceptApp

NextApp ==
    \/ \E token \in AppTokens : AppList(token)
    \/ AppCacheExpires
    \/ \E token \in AppTokens, id \in ItemIds : AppGet(token, id)
    \/ \E token \in AppTokens, bodyOk \in BOOLEAN : AppCreate(token, bodyOk)
    \/ \E token \in AppTokens, id \in ItemIds : AppDelete(token, id)

\* ----------------------------------------------- Part VI: mtpx-msg-channels
\* svc-a publishes demo.order.created with emit (broadcast) or sendToChannel
\* (channel); svc-b and svc-c subscribe to the event and consume the channel in
\* the group demo-workers.

Subscribers == {"svc-b", "svc-c"}
DemoWorkers == {"svc-b", "svc-c"}
RetryAttempts == 3

\* The consumers a delivery of a channel message goes to: the one of the group
\* that wins it.
ChannelRecipients_WholeGroup(group, winner) == group

ChannelRecipients(group, winner) == {winner}

\* The subscribers an emitted event goes to: all of them.
EmitRecipients(subscribers) == subscribers

ChanInit ==
    mq = [messages |-> <<>>, emitted |-> 0,
            eventCount |-> [s \in Subscribers |-> 0],
            channelCount |-> [s \in DemoWorkers |-> 0]]

\* POST /svc-a/demo/emit: ctx.emit("demo.order.created", payload, true); every
\* subscriber's handler runs eventCount += 1.
DemoEmit ==
    /\ mq.emitted + Len(mq.messages) < MaxPublished
    /\ mq' = [mq EXCEPT !.emitted = @ + 1,
                            !.eventCount = [s \in Subscribers |->
                                IF s \in EmitRecipients(Subscribers) THEN @[s] + 1 ELSE @[s]]]
    /\ UNCHANGED exceptMq

\* POST /svc-a/demo/channel: ctx.sendToChannel("demo.order.created", payload)
DemoChannel(forceFail) ==
    /\ mq.emitted + Len(mq.messages) < MaxPublished
    /\ mq' = [mq EXCEPT !.messages = Append(@,
                    [state |-> "queued", forceFail |-> forceFail, attempts |-> 0,
                     receivedBy |-> {}, failed |-> FALSE])]
    /\ UNCHANGED exceptMq

\* A queued message is delivered: the handler of the consumer starts
\* (channelCount += 1, "[CHANNEL][RECEIVE]").
ChannelDeliver(m, winner) ==
    /\ m \in DOMAIN mq.messages
    /\ mq.messages[m].state = "queued"
    /\ LET to == ChannelRecipients(DemoWorkers, winner)
       IN mq' = [mq EXCEPT !.messages[m].state = "inflight",
                               !.messages[m].attempts = @ + 1,
                               !.messages[m].receivedBy = @ \cup to,
                               !.channelCount = [s \in DemoWorkers |->
                                    IF s \in to THEN @[s] + 1 ELSE @[s]]]
    /\ UNCHANGED exceptMq

\* The handler ends with ctx.message.ack(), or for a forceFail message with
\* nack({requeue: false}).
ChannelSettle(m) ==
    /\ m \in DOMAIN mq.messages
    /\ mq.messages[m].state = "inflight"
    /\ mq' = [mq EXCEPT !.messages[m].state =
                    IF mq.messages[m].forceFail THEN "rejected" ELSE "acked"]
    /\ UNCHANGED exceptMq

\* Something in the try block throws (the ack or the nack fails): the catch runs
\* nack({requeue: true}) and the message is queued again, up to retryAttempts
\* deliveries.
ChannelRequeue(m) ==
    /\ m \in DOMAIN mq.messages
    /\ mq.messages[m].state = "inflight"
    /\ mq' = [mq EXCEPT !.messages[m].failed = TRUE,
                            !.messages[m].state =
                                IF mq.messages[m].attempts < RetryAttempts
                                THEN "queued" ELSE "rejected"]
    /\ UNCHANGED exceptMq

NextChan ==
    \/ DemoEmit
    \/ \E forceFail \in BOOLEAN : DemoChannel(forceFail)
    \/ \E m \in 1..MaxPublished, winner \in DemoWorkers : ChannelDeliver(m, winner)
    \/ \E m \in 1..MaxPublished : ChannelSettle(m)
    \/ \E m \in 1..MaxPublished : ChannelRequeue(m)

\* ------------------------------------------------ Part VII: scheduled-jobs
\* The worker service of mtpx-scheduled-jobs: POST /schedulers.

MaxSchedulerRequests == 3

SchedulerKeys == {"", "daily", "tick"}

\* The body's pattern: left out, or a string (z.string().optional()).
NoPattern == [given |-> FALSE, value |-> ""]
Patterns == {NoPattern} \cup [given : {TRUE}, value : {"", "0 9 * * *"}]

\* The body's every: left out, or a number (z.number().positive().optional()).
NoEvery == [given |-> FALSE, value |-> 0]
Everys == {NoEvery} \cup [given : {TRUE}, value : {0, 60000}]

SchedulerBodies == [schedulerKey : SchedulerKeys, pattern : Patterns, every : Everys]

\* createSchedulerSchema accepts the body.
createSchedulerSchema(body) ==
    /\ body.schedulerKey # ""
    /\ body.every.given => body.every.value > 0

\* JavaScript's truthiness of the destructured field: undefined, "" and 0 are falsy.
PatternTruthy(pattern) == pattern.given /\ pattern.value # ""

EveryTruthy(every) == every.given /\ every.value # 0

\* The status the request is answered with.
SchedulerStatus(authorized, body) ==
    IF ~authorized THEN 401
    ELSE IF ~createSchedulerSchema(body) THEN 422
    ELSE IF ~PatternTruthy(body.pattern) /\ ~EveryTruthy(body.every) THEN 400
    ELSE IF PatternTruthy(body.pattern) /\ EveryTruthy(body.every) THEN 400
    ELSE 200

NoSchedulerRequest ==
    [op |-> "none", authorized |-> FALSE,
     body |-> [schedulerKey |-> "", pattern |-> NoPattern, every |-> NoEvery],
     status |-> 0, upserted |-> FALSE]

SchedInit ==
    sched = [schedulers |-> [key \in {} |-> NoPattern], requests |-> 0,
             last |-> NoSchedulerRequest]

\* queue.upsertJobScheduler(schedulerKey, {pattern, every, ...}, ...): the scheduler
\* of that key is created or replaced.
upsertJobScheduler(schedulers, body) ==
    [key \in DOMAIN schedulers \cup {body.schedulerKey} |->
        IF key = body.schedulerKey
        THEN [pattern |-> body.pattern, every |-> body.every]
        ELSE schedulers[key]]

\* service.action("create-scheduler"): POST /schedulers.
CreateScheduler(authorized, body) ==
    LET status == SchedulerStatus(authorized, body) IN
    /\ sched.requests < MaxSchedulerRequests
    /\ sched' = [schedulers |-> IF status = 200
                                THEN upsertJobScheduler(sched.schedulers, body)
                                ELSE sched.schedulers,
                 requests |-> sched.requests + 1,
                 last |-> [op |-> "create-scheduler", authorized |-> authorized,
                           body |-> body, status |-> status,
                           upserted |-> status = 200]]
    /\ UNCHANGED exceptSched

NextSched ==
    \E authorized \in BOOLEAN, body \in SchedulerBodies : CreateScheduler(authorized, body)


\* --------------------------------------------- Part VIII: handle_socket
\* WebSocketHandler::handle_socket, one task per connection: add, message_loop,
\* then the cleanup.

SocketPcs == {"none", "message_loop", "cleanup", "done"}

\* Why message_loop returned: a Close frame, a socket error, the stream's end, or
\* the `?` of the text branch.
LoopExits == {"close", "error", "eof", "question_mark"}

SocketInit == sockets = [c \in ConnIds |-> "none"]

\* handle_socket, steps 3 to 5: the connection is registered and its loop runs.
SocketAdd(user) ==
    /\ nextConn <= MaxConns
    /\ connections' = connections @@ (nextConn :> NewConnection(user))
    /\ nextConn' = nextConn + 1
    /\ sockets' = [sockets EXCEPT ![nextConn] = "message_loop"]
    /\ last' = Step("add", nextConn, 0)
    /\ UNCHANGED <<rooms, leaving, tx, nextEvent, loopVars, sdkVars,
                   codec, kc, app, mq, sched, email, ctx, mw, chat, prod, ord>>

\* message_loop returns; send_task.abort() takes the receiver of the channel away.
SocketLoopReturns(conn_id, exit) ==
    /\ sockets[conn_id] = "message_loop"
    /\ sockets' = [sockets EXCEPT ![conn_id] = "cleanup"]
    /\ connections' = [connections EXCEPT ![conn_id].rx_open = FALSE]
    /\ last' = [Step("loop_returns", conn_id, 0) EXCEPT !.result = exit]
    /\ UNCHANGED <<nextConn, rooms, leaving, tx, nextEvent, loopVars, sdkVars,
                   codec, kc, app, mq, sched, email, ctx, mw, chat, prod, ord>>

\* handle_socket, step 6: connection_manager.remove(&conn_id)
SocketRemove(conn_id) ==
    /\ sockets[conn_id] = "cleanup"
    /\ connections' = MapRemove(connections, conn_id)
    /\ rooms' = LeaveAll(rooms, conn_id, connections[conn_id].rooms)
    /\ sockets' = [sockets EXCEPT ![conn_id] = "done"]
    /\ last' = Step("remove", conn_id, 0)
    /\ UNCHANGED <<nextConn, leaving, tx, nextEvent, loopVars, sdkVars,
                   codec, kc, app, mq, sched, email, ctx, mw, chat, prod, ord>>

\* The tasks of the connections, and the room operations the service sends while a
\* connection's loop runs.
NextSocket ==
    \/ \E user \in Users \cup {NoUser} : SocketAdd(user)
    \/ \E conn_id \in ConnIds, exit \in LoopExits : SocketLoopReturns(conn_id, exit)
    \/ \E conn_id \in ConnIds : SocketRemove(conn_id)
    \/ \E conn_id \in ConnIds, room \in RoomIds :
           sockets[conn_id] = "message_loop" /\ Join(conn_id, room)
    \/ \E conn_id \in ConnIds, room \in RoomIds :
           sockets[conn_id] = "message_loop" /\ LeaveLock(conn_id, room)
    \/ \E conn_id \in ConnIds, room \in RoomIds : LeaveDelete(conn_id, room)

\* ------------------------------------- Part IX: the notifications channels
\* service.channel("notifications.email", {group: "email-workers", maxInFlight: 3}),
\* one instance of the service.

MaxEmails == 5

maxInFlight == 3

\* The messages the handler is running for.
EmailsInFlight(messages) == {m \in DOMAIN messages : messages[m].state = "inflight"}

\* A consumer that takes every message at once, whatever it is running.
ChannelAdmit_Unbounded(running) == "inflight"

\* What becomes of a message that arrives while `running` invocations of the
\* handler are executing: it is handed to the handler, or it waits in the channel.
ChannelAdmit(running) == IF running < maxInFlight THEN "inflight" ELSE "queued"

EmailInit == email = [messages |-> <<>>, last |-> "init"]

\* ctx.sendToChannel("notifications.email", ...): the message reaches the consumer.
EmailSendToChannel ==
    LET state == ChannelAdmit(Cardinality(EmailsInFlight(email.messages))) IN
    /\ Len(email.messages) < MaxEmails
    /\ email' = [messages |-> Append(email.messages,
                                  [state |-> state, waited |-> state = "queued"]),
                 last |-> "sendToChannel"]
    /\ UNCHANGED exceptEmail

\* A waiting message is handed to the handler when a slot is free.
EmailDispatch(m) ==
    /\ m \in DOMAIN email.messages
    /\ email.messages[m].state = "queued"
    /\ ChannelAdmit(Cardinality(EmailsInFlight(email.messages))) = "inflight"
    /\ email' = [messages |-> [email.messages EXCEPT ![m].state = "inflight"],
                 last |-> "dispatch"]
    /\ UNCHANGED exceptEmail

\* The handler's try block: await ctx.message.ack()
EmailAck(m) ==
    /\ m \in DOMAIN email.messages
    /\ email.messages[m].state = "inflight"
    /\ email' = [messages |-> [email.messages EXCEPT ![m].state = "acked"],
                 last |-> "ack"]
    /\ UNCHANGED exceptEmail

\* The handler's catch block: await ctx.message.nack({ requeue: true })
EmailNack(m) ==
    /\ m \in DOMAIN email.messages
    /\ email.messages[m].state = "inflight"
    /\ email' = [messages |-> [email.messages EXCEPT ![m].state = "queued"],
                 last |-> "nack"]
    /\ UNCHANGED exceptEmail

NextEmail ==
    \/ EmailSendToChannel
    \/ \E m \in 1..MaxEmails : EmailDispatch(m)
    \/ \E m \in 1..MaxEmails : EmailAck(m)
    \/ \E m \in 1..MaxEmails : EmailNack(m)

\* ------------------------------------------ Part X: the SDK's WsContext
\* ctx.join, ctx.leave and ctx.rooms as the SDK has them, called by the chat
\* service's hooks and handlers for the socket of the context.

MaxCtxCalls == 3

CtxCalls == [conn : ConnIds, op : {"join", "leave"}, room : RoomIds]

\* The rooms of a connection after its calls are applied one after the other.
RECURSIVE ApplyInOrder(_, _, _)
ApplyInOrder(calls, n, conn_id) ==
    IF n = 0 THEN {}
    ELSE LET before == ApplyInOrder(calls, n - 1, conn_id)
             call == calls[n]
         IN  IF call.conn # conn_id THEN before
             ELSE IF call.op = "join" THEN before \cup {call.room}
             ELSE before \ {call.room}

\* async join(room): "TODO: Send room join command to Linkd"; the call logs and
\* returns, and no WebSocketRoomOperation leaves the service.
CtxJoin(rs, conn_id, room) == rs

\* async leave(room): "TODO: Send room leave command to Linkd"
CtxLeave(rs, conn_id, room) == rs

\* async rooms(): "TODO: Get rooms from Linkd"; return []
CtxRooms(rs, conn_id) == {}

NoAnswer == [conn |-> 0, at |-> 0, rooms |-> {}]

CtxInit == ctx = [calls |-> <<>>, answer |-> NoAnswer]

\* await ctx.join(room) / await ctx.leave(room) in a hook or handler of conn_id
CtxRoomCall(call) ==
    /\ call.conn \in DOMAIN connections
    /\ Len(ctx.calls) < MaxCtxCalls
    /\ rooms' = IF call.op = "join" THEN CtxJoin(rooms, call.conn, call.room)
                ELSE CtxLeave(rooms, call.conn, call.room)
    /\ ctx' = [ctx EXCEPT !.calls = Append(@, call)]
    /\ last' = Step(call.op, call.conn, call.room)
    /\ UNCHANGED <<connections, nextConn, leaving, tx, nextEvent, loopVars, sdkVars, exceptCtxApps>>

\* const rooms = await ctx.rooms()
CtxRoomsQuery(conn_id) ==
    /\ conn_id \in DOMAIN connections
    /\ ctx' = [ctx EXCEPT !.answer = [conn |-> conn_id, at |-> Len(ctx.calls),
                                      rooms |-> CtxRooms(rooms, conn_id)]]
    /\ last' = Step("rooms", conn_id, 0)
    /\ UNCHANGED <<connections, nextConn, rooms, leaving, tx, nextEvent, loopVars, sdkVars, exceptCtxApps>>

NextCtx ==
    \/ \E user \in Users \cup {NoUser} : Add(user)
    \/ \E call \in CtxCalls : CtxRoomCall(call)
    \/ \E conn_id \in ConnIds : CtxRoomsQuery(conn_id)

\* ------------------------------------------ Part XI: the middlewares
\* WebSocketManager.use(middleware) and use(pattern, middleware), and the chain
\* handleInboundMessage builds for a message.

MaxMiddlewares == 3

MiddlewarePatterns == {"chat.*", "chat.send", "chat.typing"}

\* new RegExp(`^${pattern.replace(/\*/g, ".*")}$`).test(messageType), on the
\* patterns and message types above.
PatternMatches(pattern, messageType) ==
    \/ pattern = "chat.*"
    \/ pattern = messageType

\* Map.set on handlerMiddlewares: a pattern already in the Map keeps its place
\* and gets the middleware at the end of its list, a new one goes last.
UsePatternSet(entries, pattern, middleware) ==
    IF \E i \in DOMAIN entries : entries[i].pattern = pattern
    THEN [i \in DOMAIN entries |->
            IF entries[i].pattern = pattern
            THEN [entries[i] EXCEPT !.mws = Append(@, middleware)]
            ELSE entries[i]]
    ELSE Append(entries, [pattern |-> pattern, mws |-> <<middleware>>])

\* for (const [pattern, mws] of handlerMiddlewares)
\*     if (regex.test(messageType)) middlewares.push(...mws)
RECURSIVE MatchingMiddlewares(_, _, _)
MatchingMiddlewares(entries, n, messageType) ==
    IF n = 0 THEN <<>>
    ELSE MatchingMiddlewares(entries, n - 1, messageType)
            \o (IF PatternMatches(entries[n].pattern, messageType)
                THEN entries[n].mws ELSE <<>>)

\* The chain of a message: the global middlewares, the matching ones, and the
\* handler (0) at the end; each middleware of the service calls next().
MiddlewareChain(messageType) ==
    mw.globalMiddlewares
        \o MatchingMiddlewares(mw.handlerMiddlewares, Len(mw.handlerMiddlewares), messageType)
        \o <<0>>

MwInit ==
    mw = [globalMiddlewares |-> <<>>, handlerMiddlewares |-> <<>>, registered |-> <<>>,
          messageType |-> "", ranWith |-> <<>>, ran |-> <<>>]

\* service.ws.use(middleware)
UseGlobal ==
    /\ Len(mw.registered) < MaxMiddlewares
    /\ mw' = [mw EXCEPT !.globalMiddlewares = Append(@, Len(mw.registered) + 1),
                        !.registered = Append(@, "global")]
    /\ UNCHANGED exceptMw

\* service.ws.use(pattern, middleware)
UsePattern(pattern) ==
    /\ Len(mw.registered) < MaxMiddlewares
    /\ mw' = [mw EXCEPT !.handlerMiddlewares =
                            UsePatternSet(@, pattern, Len(mw.registered) + 1),
                        !.registered = Append(@, pattern)]
    /\ UNCHANGED exceptMw

\* handleInboundMessage: await executeNext() from middlewareIndex 0
RunChain(messageType) ==
    /\ mw' = [mw EXCEPT !.messageType = messageType, !.ranWith = mw.registered,
                        !.ran = MiddlewareChain(messageType)]
    /\ UNCHANGED exceptMw

NextMw ==
    \/ UseGlobal
    \/ \E pattern \in MiddlewarePatterns : UsePattern(pattern)
    \/ \E messageType \in MessageTypes : RunChain(messageType)

\* ------------------------------------- Part XII: presence in the chat service
\* service.ws.onConnect and onDisconnect, and users.status in the database.

MaxSockets == 3

ChatUsers == {"alice", "bob"}

\* ctx.auth?.userId of a socket: a user, or none for a socket without a token.
SocketUsers == ChatUsers \cup {NoUser}

\* The open sockets of a user.
OpenSocketsOf(userId) ==
    {s \in DOMAIN chat.sockets : chat.sockets[s].open /\ chat.sockets[s].userId = userId}

\* users.status is 'offline' by default.
ChatInit ==
    chat = [sockets |-> <<>>, status |-> [userId \in ChatUsers |-> "offline"],
            last |-> "init"]

\* onConnect: for an authenticated socket, update({ status: "online" })
OnConnect(userId) ==
    /\ Len(chat.sockets) < MaxSockets
    /\ chat' = [sockets |-> Append(chat.sockets, [userId |-> userId, open |-> TRUE]),
                status |-> IF userId # NoUser
                           THEN [chat.status EXCEPT ![userId] = "online"]
                           ELSE chat.status,
                last |-> "onConnect"]
    /\ UNCHANGED exceptChat

\* onDisconnect: for an authenticated socket, update({ status: "offline" })
OnDisconnect(s) ==
    /\ s \in DOMAIN chat.sockets
    /\ chat.sockets[s].open
    /\ chat' = [sockets |-> [chat.sockets EXCEPT ![s].open = FALSE],
                status |-> IF chat.sockets[s].userId # NoUser
                           THEN [chat.status EXCEPT ![chat.sockets[s].userId] = "offline"]
                           ELSE chat.status,
                last |-> "onDisconnect"]
    /\ UNCHANGED exceptChat

NextChat ==
    \/ \E userId \in SocketUsers : OnConnect(userId)
    \/ \E s \in 1..MaxSockets : OnDisconnect(s)

\* ------------------------------------- Part XIII: the products service
\* service.action("adjustStock") on one product, several requests at a time.

MaxAdjusts == 3

InitialStock == 1

AdjustIds == 1..MaxAdjusts

\* The body's quantity: an integer, negative to take stock out.
AdjustQuantities == {-1, 1, 2}

IdleAdjust == [pc |-> "idle", quantity |-> 0, stock |-> 0, success |-> FALSE]

ProdInit == prod = [stock |-> InitialStock, requests |-> [r \in AdjustIds |-> IdleAdjust]]

\* The handler up to its update: the product is read, newStock is computed, and a
\* negative one is thrown as INSUFFICIENT_STOCK.
AdjustSelect(r, quantity) ==
    /\ prod.requests[r].pc = "idle"
    /\ prod' = [prod EXCEPT !.requests[r] =
                    [pc |-> IF prod.stock + quantity < 0 THEN "done" ELSE "selected",
                     quantity |-> quantity, stock |-> prod.stock, success |-> FALSE]]
    /\ UNCHANGED exceptProd

\* await ctx.db.products.whereEquals("id", id).update({ stock: newStock }), and
\* the handler's return.
AdjustUpdate(r) ==
    /\ prod.requests[r].pc = "selected"
    /\ prod' = [prod EXCEPT !.stock = prod.requests[r].stock + prod.requests[r].quantity,
                            !.requests[r].pc = "done",
                            !.requests[r].success = TRUE]
    /\ UNCHANGED exceptProd

NextProd ==
    \/ \E r \in AdjustIds, quantity \in AdjustQuantities : AdjustSelect(r, quantity)
    \/ \E r \in AdjustIds : AdjustUpdate(r)

\* ------------------------------------- Part XIV: the orders service
\* service.action("updateStatus") and service.action("cancel") on one order.

MaxOrderRequests == 2

OrderRequestIds == 1..MaxOrderRequests

\* UpdateOrderStatusSchema.status
OrderStatuses == {"pending", "confirmed", "processing", "shipped", "delivered", "cancelled"}

IdleOrderRequest == [pc |-> "idle", action |-> "", status |-> "", code |-> 0]

\* An order is created with status "pending".
OrdInit ==
    ord = [status |-> "pending", wasDelivered |-> FALSE,
           requests |-> [r \in OrderRequestIds |-> IdleOrderRequest]]

\* updateStatus up to its update: the order is read; its status is not looked at.
UpdateStatusSelect(r, status) ==
    /\ ord.requests[r].pc = "idle"
    /\ ord' = [ord EXCEPT !.requests[r] =
                    [pc |-> "selected", action |-> "updateStatus", status |-> status,
                     code |-> 0]]
    /\ UNCHANGED exceptOrd

\* cancel up to its update: the order is read, and a cancelled or delivered one is
\* refused with 400 VALIDATION_ERROR.
CancelSelect(r) ==
    /\ ord.requests[r].pc = "idle"
    /\ ord' = [ord EXCEPT !.requests[r] =
                    IF ord.status \in {"cancelled", "delivered"}
                    THEN [pc |-> "done", action |-> "cancel", status |-> "cancelled",
                          code |-> 400]
                    ELSE [pc |-> "selected", action |-> "cancel", status |-> "cancelled",
                          code |-> 0]]
    /\ UNCHANGED exceptOrd

\* await ctx.db.orders.whereEquals("id", id).update({ status }), of either action,
\* and the handler's return.
OrderUpdate(r) ==
    /\ ord.requests[r].pc = "selected"
    /\ ord' = [ord EXCEPT !.status = ord.requests[r].status,
                          !.wasDelivered = @ \/ ord.requests[r].status = "delivered",
                          !.requests[r].pc = "done",
                          !.requests[r].code = 200]
    /\ UNCHANGED exceptOrd

NextOrd ==
    \/ \E r \in OrderRequestIds, status \in OrderStatuses : UpdateStatusSelect(r, status)
    \/ \E r \in OrderRequestIds : CancelSelect(r)
    \/ \E r \in OrderRequestIds : OrderUpdate(r)

Init ==
    /\ GwInit /\ LoopInit /\ SdkInit /\ CodecInit /\ KcInit /\ AppInit /\ ChanInit
    /\ SchedInit
    /\ SocketInit
    /\ EmailInit
    /\ CtxInit
    /\ MwInit
    /\ ChatInit
    /\ ProdInit
    /\ OrdInit

Next ==
    \/ \E user \in Users \cup {NoUser} : Add(user)
    \/ \E conn_id \in ConnIds : Remove(conn_id)
    \/ \E conn_id \in ConnIds, room \in RoomIds : Join(conn_id, room)
    \/ \E conn_id \in ConnIds, room \in RoomIds : LeaveLock(conn_id, room)
    \/ \E conn_id \in ConnIds, room \in RoomIds : LeaveDelete(conn_id, room)

Spec == Init /\ [][Next]_vars

\* The gateway with the outbound router.
NextBroadcast ==
    \/ Next
    \/ \E conn_id \in ConnIds : SendTaskEnds(conn_id)
    \/ \E target \in Targets, except_connections \in ExceptLists :
           RouteOutbound(target, except_connections)

SpecBroadcast == Init /\ [][NextBroadcast]_vars

\* The receive loop of one connection.
SpecLoop == Init /\ [][NextLoop]_vars

\* The handler registry under any on() calls.
SpecRegistry == Init /\ [][NextRegistry]_vars

\* The SDK: the handlers are registered, the service starts, messages come in.
SpecSdk == Init /\ [][NextSdk]_vars

\* The SDK taking messages for handlers registered without options, and for types
\* without a handler.
SpecDispatch == Init /\ [][NextDispatch]_vars

\* The codec: one frame decoded and encoded again.
SpecCodec == Init /\ [][NextCodec]_vars

\* The tenant-routing service under any requests.
SpecKc == Init /\ [][NextKc]_vars

\* The minimal app under any requests.
SpecApp == Init /\ [][NextApp]_vars

\* The three services of msg-channels.
SpecChan == Init /\ [][NextChan]_vars

\* The worker service of scheduled-jobs under any POST /schedulers requests.
SpecSched == Init /\ [][NextSched]_vars

\* The connection tasks; a task that has left its loop goes on to the cleanup, and
\* a leave that has dropped its guard goes on to delete the room.
SpecSocket ==
    /\ Init /\ [][NextSocket]_vars
    /\ \A conn_id \in ConnIds : WF_vars(SocketRemove(conn_id))
    /\ \A conn_id \in ConnIds, room \in RoomIds : WF_vars(LeaveDelete(conn_id, room))

\* The email channel and its consumer.
SpecEmail == Init /\ [][NextEmail]_vars

\* The chat service calling the room operations of its contexts.
SpecCtx == Init /\ [][NextCtx]_vars

\* The middlewares registered in any order, and messages run through them.
SpecMw == Init /\ [][NextMw]_vars

\* The chat service's connect and disconnect hooks, each run whole.
SpecChat == Init /\ [][NextChat]_vars

\* Concurrent adjustStock requests on one product.
SpecProd == Init /\ [][NextProd]_vars

\* Concurrent updateStatus and cancel requests on one order.
SpecOrd == Init /\ [][NextOrd]_vars

\* ------------------------------------------------------ claims, Part I

Count(seq, x) == Cardinality({i \in DOMAIN seq : seq[i] = x})

Range(seq) == {seq[i] : i \in DOMAIN seq}

\* C1: an identity never holds more than MaxConnectionsPerIdentity admitted
\* connections at once, whatever the interleaving of admits.
C1_AdmitLimit ==
    \A user \in Users : Cardinality(ConnectionsOf(user)) <= MaxConnectionsPerIdentity

\* C2: when remove(conn_id) has completed, conn_id is a member of no room.
C2_RemovedInNoRoom ==
    last.op = "remove" => \A r \in DOMAIN rooms : last.conn \notin rooms[r]

\* C6: a broadcast to a room, or to all, reaches every connected member that is not
\* in the exclusion list exactly once, and no connection that is in it.
C6_Recipients ==
    {c \in (IF last.target.kind = "room"
             THEN get_members(last.target.id) \cap DOMAIN connections
             ELSE DOMAIN connections) \ Range(last.except) : connections[c].rx_open}

C6_BroadcastExcept ==
    (last.op = "outbound" /\ last.target.kind \in {"room", "all"}) =>
        \A c \in ConnIds :
            Count(tx[c], last.event) = IF c \in C6_Recipients THEN 1 ELSE 0

C8_NoEmptyRoom ==
    /\ leaving = {} => \A r \in DOMAIN rooms : rooms[r] # {}
    /\ last.op = "remove" => \A r \in DOMAIN rooms : rooms[r] \ {last.conn} # {}

\* ------------------------------------------------------ claims, Part II

\* C3: a message for a handler registered with auth, on a connection without an
\* identity, is answered with an UNAUTHORIZED error carrying the request's id.
C3_UnauthorizedAnswered ==
    \A m \in DOMAIN msgs :
        (/\ HasHandler(msgs[m].messageType)
         /\ HandlerOf(msgs[m].messageType).options.auth
         /\ ~msgs[m].user.present) =>
            \E r \in responses :
                /\ r.msg = m
                /\ r.correlationId = msgs[m].correlationId
                /\ r.kind = "error"
                /\ r.type = "UNAUTHORIZED"

\* The receive loop went on after frame i.
LoopWentOnAfter(i) == i < Len(frameLog) \/ loopPc = "recv"

\* C4: a frame that fails to decode does not end the connection's receive loop:
\* the next frame is still received.
C4_ErrorKeepsLoop ==
    \A i \in DOMAIN frameLog :
        (frameLog[i].kind = "text" /\ ~frameLog[i].wellFormed) => LoopWentOnAfter(i)

\* C5: a text frame larger than maxMessageSizeBytes is never parsed, is answered
\* with MalformedPayload, and leaves the loop receiving.
C5_OversizeRejected ==
    \A i \in DOMAIN frameLog :
        (frameLog[i].kind = "text" /\ frameLog[i].size > MaxMessageSizeBytes) =>
            /\ ~frameLog[i].parsed
            /\ frameLog[i].reply = "MalformedPayload"
            /\ LoopWentOnAfter(i)

\* C9: once a handler has run for its timeoutMs without completing, its request has
\* been answered with HandlerTimeout.
C9_TimeoutAnswered ==
    \A m \in DOMAIN msgs :
        (/\ msgs[m].status = "running"
         /\ msgs[m].elapsed >= HandlerOf(msgs[m].messageType).options.timeoutMs) =>
            \E r \in responses :
                r.msg = m /\ r.kind = "error" /\ r.type = "HandlerTimeout"

\* C10: the registry holds at most one registration per name, and the one of the
\* name registered last is the handler and the options of that call alone: a key
\* the call did not give has its default, not the value of an earlier call.
C10_OneRegistration ==
    /\ \A name \in MessageTypes :
          Cardinality({i \in DOMAIN handlers : handlers[i].name = name}) <= 1
    /\ onLog # <<>> =>
          LET call == onLog[Len(onLog)]
              entry == HandlerOf(call.name)
          IN /\ HasHandler(call.name)
             /\ entry.handler = call.handler
             /\ \A k \in OptionKeys :
                   entry.options[k] =
                       IF k \in call.options.given THEN call.options[k] ELSE DefaultOptions[k]

\* C10 witness: one name registered twice, with other options and another handler.
C10_Witness ==
    /\ Len(onLog) = 2
    /\ onLog[1].name = onLog[2].name
    /\ onLog[1].options.given # onLog[2].options.given
    /\ onLog[1].handler # onLog[2].handler
    /\ Len(handlers) = 1

C12_JoinIdempotent ==
    \A conn_id \in ConnIds, room \in RoomIds :
        conn_id < nextConn =>
            LET once == RoomsJoin(rooms, conn_id, room)
                twice == RoomsJoin(once, conn_id, room)
            IN /\ twice = once
               /\ conn_id \in twice[room]
               /\ (last.op = "join" /\ last.conn = conn_id /\ last.room = room) =>
                      once = rooms

\* C12 witness: join(C, R) has completed on a room with another member, so that
\* the next join(C, R) is the second in a row.
C12_Witness ==
    /\ last.op = "join"
    /\ last.conn \in get_members(last.room)
    /\ get_members(last.room) # {last.conn}

C14_GoneNotSurfaced ==
    last.op = "outbound" =>
        /\ last.result = "Ok"
        /\ \A c \in DOMAIN connections :
              (/\ connections[c].rx_open
               /\ c \notin Range(last.except)
               /\ \/ last.target.kind = "all"
                  \/ last.target.kind = "room" /\ c \in get_members(last.target.id)
                  \/ last.target.kind = "connection" /\ c = last.target.id)
                  => Count(tx[c], last.event) >= 1

\* C15: a message from a connection whose roles share none with the roles its
\* handler declares never reaches the handler, and is answered with a FORBIDDEN
\* error.
C15_ForbiddenAnswered ==
    \A m \in DOMAIN msgs :
        (/\ HasHandler(msgs[m].messageType)
         /\ HandlerOf(msgs[m].messageType).options.roles # {}
         /\ HandlerOf(msgs[m].messageType).options.roles \cap msgs[m].user.roles = {}
         /\ msgs[m].status # "dropped_auth") =>
            /\ msgs[m].status \notin {"running", "returned", "threw"}
            /\ \E r \in responses :
                  r.msg = m /\ r.kind = "error" /\ r.type = "FORBIDDEN"

\* C16: a handler registered with a validation schema runs only on a payload that
\* passes the schema; a payload that fails it is answered with a ValidationError
\* and does not reach the handler.
C16_ValidatedOnly ==
    \A m \in DOMAIN msgs :
        (/\ HasHandler(msgs[m].messageType)
         /\ HandlerOf(msgs[m].messageType).options.validate # NoSchema
         /\ ~msgs[m].schemaOk
         /\ msgs[m].status \notin {"dropped_auth", "dropped_roles", "parse_threw"}) =>
            /\ msgs[m].status \notin {"running", "returned", "threw"}
            /\ \E r \in responses :
                  r.msg = m /\ r.kind = "error" /\ r.type = "ValidationError"

C18_DeleteNeedsAdmin ==
    /\ app.last.action = "delete" =>
          /\ app.last.token = "none" =>
                /\ app.last.status = 401
                /\ app.last.type = "UNAUTHORIZED"
                /\ app.items = app.last.before
          /\ app.last.token = "user" =>
                /\ app.last.status = 403
                /\ app.last.type = "FORBIDDEN"
                /\ app.items = app.last.before
    /\ (app.last.before \ app.items # {}) =>
          /\ app.last.action = "delete"
          /\ app.last.token = "admin"

\* C18 witness: a delete of an item that is in the store has been asked for with
\* a user token.
C18_Witness ==
    /\ app.last.action = "delete"
    /\ app.last.token = "user"
    /\ app.last.id \in app.last.before

\* The deliveries made of the messages of a channel.
RECURSIVE Deliveries(_)
Deliveries(messages) ==
    IF messages = <<>> THEN 0 ELSE Head(messages).attempts + Deliveries(Tail(messages))

C20_ExactlyOneOfPatternEvery ==
    sched.last.op = "create-scheduler" =>
        LET body == sched.last.body
            exactlyOne == body.pattern.given # body.every.given
        IN  /\ sched.last.upserted => exactlyOne
            /\ (sched.last.authorized /\ createSchedulerSchema(body) /\ ~exactlyOne)
                   => (sched.last.status = 400 /\ ~sched.last.upserted)

\* C21: once a connection's receive loop has returned, whatever the reason, the
\* connection is eventually absent from the registry and from every room's member
\* set.
C21_LoopExitCleansUp ==
    \A conn_id \in ConnIds :
        (sockets[conn_id] = "cleanup")
            ~> (/\ conn_id \notin DOMAIN connections
                /\ \A room \in DOMAIN rooms : conn_id \notin rooms[room])

\* The first half of C21 alone: the connection leaves the registry.
LoopExitUnregisters ==
    \A conn_id \in ConnIds :
        (sockets[conn_id] = "cleanup") ~> (conn_id \notin DOMAIN connections)

OneResponsePerCorrelationId ==
    \A m \in DOMAIN msgs :
        msgs[m].correlationId # 0 =>
            Cardinality({r \in responses : r.correlationId = msgs[m].correlationId}) <= 1

\* C23: the handler of the channel never runs more than maxInFlight invocations at
\* once, and a message that arrives while maxInFlight are running is not dropped:
\* it waits in the channel until it is handed to the handler.
C23_BoundedNeverDropped ==
    /\ Cardinality(EmailsInFlight(email.messages)) <= maxInFlight
    /\ \A m \in DOMAIN email.messages :
        /\ email.messages[m].state \in {"queued", "inflight", "acked"}
        /\ email.messages[m].waited =>
              \/ email.messages[m].state # "queued"
              \/ Cardinality(EmailsInFlight(email.messages)) = maxInFlight
              \/ ENABLED EmailDispatch(m)

\* A message that arrived while maxInFlight invocations were running has been
\* handed to the handler.
C23_Witness ==
    \E m \in DOMAIN email.messages :
        email.messages[m].waited /\ email.messages[m].state = "acked"

\* C24: the room calls a connection has made through its context are applied in
\* the order issued: once they have returned, the connection's rooms at the
\* gateway, and the list a rooms() query returns, are those of the calls applied
\* one after the other.
C24_AppliedInIssueOrder ==
    /\ \A conn_id \in DOMAIN connections :
          get_rooms_for_connection(conn_id) = ApplyInOrder(ctx.calls, Len(ctx.calls), conn_id)
    /\ ctx.answer.conn # 0 =>
          ctx.answer.rooms = ApplyInOrder(ctx.calls, ctx.answer.at, ctx.answer.conn)

\* C25: for a message, first every global middleware registered by then runs in
\* registration order, then every middleware whose pattern matches the message type in registration
\* order, whatever pattern each was registered under, then the handler.
C25_MiddlewareOrder ==
    mw.messageType # "" =>
        LET globals == {i \in DOMAIN mw.ranWith : mw.ranWith[i] = "global"}
            matching == {i \in DOMAIN mw.ranWith :
                            /\ mw.ranWith[i] # "global"
                            /\ PatternMatches(mw.ranWith[i], mw.messageType)}
            ran == mw.ran
        IN  /\ Len(ran) = Cardinality(globals) + Cardinality(matching) + 1
            /\ ran[Len(ran)] = 0
            /\ \A k \in 1..Cardinality(globals) : ran[k] \in globals
            /\ \A k \in (Cardinality(globals) + 1)..(Len(ran) - 1) : ran[k] \in matching
            /\ \A j, k \in 1..Cardinality(globals) : j < k => ran[j] < ran[k]
            /\ \A j, k \in (Cardinality(globals) + 1)..(Len(ran) - 1) :
                  j < k => ran[j] < ran[k]

C27_JoinNotLost ==
    [][\A room \in RoomIds, conn_id \in ConnIds :
          (conn_id \in get_members(room) /\ conn_id \notin get_members(room)') =>
              (last'.conn = conn_id /\ last'.op \in {"leave", "leave_unlock", "remove"})]_vars

\* C28: between hooks, a user's stored status is "online" exactly when the user
\* has an open socket.
C28_OnlineIffConnected ==
    \A userId \in ChatUsers :
        chat.status[userId] = "online" <=> OpenSocketsOf(userId) # {}

\* The sum of the quantities of the requests that returned success.
RECURSIVE AdjustedBy(_)
AdjustedBy(rs) ==
    IF rs = {} THEN 0
    ELSE LET r == CHOOSE x \in rs : TRUE
         IN (IF prod.requests[r].success THEN prod.requests[r].quantity ELSE 0)
                + AdjustedBy(rs \ {r})

\* C29: when no adjustStock request is between its read and its update, the stock
\* is the initial stock plus the quantities of the requests that returned success.
C29_NoLostAdjustment ==
    (\A r \in AdjustIds : prod.requests[r].pc # "selected") =>
        prod.stock = InitialStock + AdjustedBy(AdjustIds)

\* C30: an order that has been "delivered" is "cancelled" in no later state.
C30_DeliveredNeverCancelled ==
    ord.wasDelivered => ord.status # "cancelled"

====
